---- MODULE Spec2Model ----
(***************************************************************************)
(* Model of src/main.py, the Client Categorisation Matrix: loading a CSV   *)
(* table, clean_percentage_column, validate_data, create_scatter_plot and   *)
(* the data summary of main.                                                *)
(*                                                                          *)
(* A text is a sequence of one-character strings, so that stripping '%',    *)
(* parsing and formatting act on characters.  A number is kept in           *)
(* thousandths (Milli): 28.0 is 28000, 2.999 is 2999.  An optional value    *)
(* (Python's None) is a sequence of length 0 or 1.                          *)
(*                                                                          *)
(* One run of main is followed step by step (pc): load, validate, plot,     *)
(* summarise.  An exception that main does not catch ends the run at        *)
(* pc = "exception".  Marker colours, hover texts, the layout styling and   *)
(* the PNG download are left out: no property stated here reads them.       *)
(***************************************************************************)
EXTENDS Integers, Sequences, FiniteSets, TLC

VARIABLES data_mode, uploaded_file, csv_url, df, pc, calls, st_error,
          fig, summary, exc

vars == <<data_mode, uploaded_file, csv_url, df, pc, calls, st_error,
          fig, summary, exc>>

\* ------------------------------------------------------------------ bounds

\* Longest table of the generated input families.
MaxRows == 2

\* ------------------------------------------------------------------ texts

\* Thousandths: the fixed-point unit standing for Python's float.
Milli == 1000

Digits == {"0", "1", "2", "3", "4", "5", "6", "7", "8", "9"}

DigitVal(c) ==
    CASE c = "0" -> 0 [] c = "1" -> 1 [] c = "2" -> 2 [] c = "3" -> 3
      [] c = "4" -> 4 [] c = "5" -> 5 [] c = "6" -> 6 [] c = "7" -> 7
      [] c = "8" -> 8 [] c = "9" -> 9

DigitChar(d) ==
    CASE d = 0 -> "0" [] d = 1 -> "1" [] d = 2 -> "2" [] d = 3 -> "3"
      [] d = 4 -> "4" [] d = 5 -> "5" [] d = 6 -> "6" [] d = 7 -> "7"
      [] d = 8 -> "8" [] d = 9 -> "9"

\* The positions of character c in text s.
Positions(s, c) == {i \in 1..Len(s) : s[i] = c}

\* Value of a text of digits (0 for the empty text).
RECURSIVE DigitsVal(_)
DigitsVal(s) ==
    IF s = <<>> THEN 0
    ELSE 10 * DigitsVal(SubSeq(s, 1, Len(s) - 1)) + DigitVal(s[Len(s)])

\* The decimal digits of a natural number: what str(int) writes.
RECURSIVE IntStr(_)
IntStr(n) ==
    IF n < 10 THEN <<DigitChar(n)>>
    ELSE Append(IntStr(n \div 10), DigitChar(n % 10))

\* A text that is an integer literal: one or more digits.
IsIntText(s) == Len(s) > 0 /\ \A i \in 1..Len(s) : s[i] \in Digits

\* A text that is a decimal literal: digits with at most one '.', at least
\* one digit ("5.", ".5" and "5" all parse).
IsFloatText(s) ==
    /\ \A i \in 1..Len(s) : s[i] \in Digits \cup {"."}
    /\ Cardinality(Positions(s, ".")) <= 1
    /\ \E i \in 1..Len(s) : s[i] \in Digits

\* The value, in thousandths, of a decimal literal with at most three
\* fractional digits.
ParseMilli(s) ==
    LET dots == Positions(s, ".")
        dot  == IF dots = {} THEN Len(s) + 1 ELSE CHOOSE i \in dots : TRUE
        ip   == SubSeq(s, 1, dot - 1)
        fp   == SubSeq(s, dot + 1, Len(s))
        pad  == fp \o SubSeq(<<"0", "0", "0">>, 1, 3 - Len(fp))
    IN  DigitsVal(ip) * Milli + DigitsVal(SubSeq(pad, 1, 3))

\* The fractional digits of repr(float): trailing zeros dropped, one kept.
RECURSIVE StripZeros(_)
StripZeros(s) ==
    IF Len(s) > 1 /\ s[Len(s)] = "0" THEN StripZeros(SubSeq(s, 1, Len(s) - 1))
    ELSE s

\* str(float) of the value m thousandths: 28000 is "28.0", 2500 is "2.5".
FloatRepr(m) ==
    LET f == m % Milli
        three == <<DigitChar(f \div 100), DigitChar((f \div 10) % 10), DigitChar(f % 10)>>
    IN  IntStr(m \div Milli) \o <<".">> \o StripZeros(three)

\* ------------------------------------------------------------------ values

\* A cell of a DataFrame: an int64, a float64, a Python str or NaN.
IntV(m)   == [t |-> "int",   m |-> m, s |-> <<>>]
FloatV(m) == [t |-> "float", m |-> m, s |-> <<>>]
StrV(s)   == [t |-> "str",   m |-> 0, s |-> s]
NaN       == [t |-> "nan",   m |-> 0, s |-> <<>>]

IsNum(v) == v.t \in {"int", "float"}

\* ------------------------------------------------------------------ tables

\* The six column names validate_data requires, in its order.
required_columns ==
    <<"Client_Name", "Strategic_Importance_(1-5)", "Spend_Potential_(1-5)",
      "Relationship_Risk_(R/A/G)", "FY25_Revenue", "%_of_Total_Revenue">>

RequiredSet == {required_columns[i] : i \in 1..Len(required_columns)}

\* One line of a CSV file with the six required columns.  A client name is
\* kept as one token: no code inspects its characters.
Row(name, importance, spend, risk, revenue, share) ==
    [c \in RequiredSet |->
        CASE c = "Client_Name" -> name
          [] c = "Strategic_Importance_(1-5)" -> importance
          [] c = "Spend_Potential_(1-5)" -> spend
          [] c = "Relationship_Risk_(R/A/G)" -> risk
          [] c = "FY25_Revenue" -> revenue
          [] c = "%_of_Total_Revenue" -> share]

\* The embedded demo CSV: its header and its 13 lines.
DEMO_DATA ==
    [columns |-> RequiredSet,
     rows |-> <<
       Row(<<"Arctic Tours">>, <<"1">>, <<"2">>, <<"R">>, <<"2", "0", "0", "0", "0", "0">>, <<"2", "8", "%">>),
       Row(<<"Blackpool Tower">>, <<"1">>, <<"2">>, <<"A">>, <<"5", "0", "0", "0">>, <<"1", "%">>),
       Row(<<"Crest Hotels">>, <<"4">>, <<"1">>, <<"G">>, <<"3", "5", "0", "0", "0">>, <<"5", "%">>),
       Row(<<"Dan Air">>, <<"4">>, <<"5">>, <<"A">>, <<"2", "6", "5", "0", "0">>, <<"4", "%">>),
       Row(<<"EasyJetter">>, <<"5">>, <<"4">>, <<"G">>, <<"3", "0", "0", "0", "0">>, <<"4", "%">>),
       Row(<<"Finland Tourist Board">>, <<"1">>, <<"4">>, <<"A">>, <<"6", "0", "0", "0", "0">>, <<"8", "%">>),
       Row(<<"Grange Hotel Group">>, <<"3">>, <<"3">>, <<"R">>, <<"4", "5", "0", "0", "0">>, <<"6", "%">>),
       Row(<<"Hotelfinance.com">>, <<"4">>, <<"2">>, <<"A">>, <<"9", "2", "5", "0", "0">>, <<"1", "3", "%">>),
       Row(<<"Iceland Tours">>, <<"5">>, <<"1">>, <<"R">>, <<"6", "9", "5", "0", "0">>, <<"1", "0", "%">>),
       Row(<<"Jupiter Travel Ltd">>, <<"1">>, <<"1">>, <<"A">>, <<"8", "5", "0", "0">>, <<"1", "%">>),
       Row(<<"Kenyan Safari Group">>, <<"2">>, <<"2">>, <<"A">>, <<"1", "6", "0", "0", "0">>, <<"2", "%">>),
       Row(<<"Lapland Holidays">>, <<"4">>, <<"3">>, <<"G">>, <<"1", "6", "0", "0", "0">>, <<"2", "%">>),
       Row(<<"Monte Carlo Yachting Group">>, <<"5">>, <<"5">>, <<"G">>, <<"1", "0", "5", "0", "0", "0">>, <<"1", "5", "%">>)
     >>]

\* ------------------------------------------------------------------ pandas

\* pd.read_csv's type inference for one column.  A blank cell is NaN; a
\* column whose other cells are all integers is int64 (float64 if a cell is
\* blank), all decimals float64, and anything else keeps every cell a str.
ColumnValues(cells) ==
    LET filled == {i \in 1..Len(cells) : cells[i] # <<>>}
    IN  IF \A i \in filled : IsIntText(cells[i])
        THEN [i \in 1..Len(cells) |->
                IF i \notin filled THEN NaN
                ELSE IF filled = 1..Len(cells) THEN IntV(ParseMilli(cells[i]))
                ELSE FloatV(ParseMilli(cells[i]))]
        ELSE IF \A i \in filled : IsFloatText(cells[i])
        THEN [i \in 1..Len(cells) |->
                IF i \in filled THEN FloatV(ParseMilli(cells[i])) ELSE NaN]
        ELSE [i \in 1..Len(cells) |->
                IF i \in filled THEN StrV(cells[i]) ELSE NaN]

\* The column c of a table, as a sequence.
Column(t, c) == [i \in 1..Len(t.rows) |-> t.rows[i][c]]

\* pd.read_csv of a CSV text: raises (EmptyDataError) when the text has no
\* header, and otherwise infers each column's type.
read_csv(csv) ==
    IF csv.columns = {}
    THEN [raised |-> TRUE, df |-> [columns |-> {}, rows |-> <<>>]]
    ELSE [raised |-> FALSE,
          df |-> [columns |-> csv.columns,
                  rows |-> [i \in 1..Len(csv.rows) |->
                             [c \in csv.columns |-> ColumnValues(Column(csv, c))[i]]]]]

\* Series.astype(str): what str() writes for a cell.
AsStr(v) ==
    CASE v.t = "str"   -> v.s
      [] v.t = "int"   -> IntStr(v.m \div Milli)
      [] v.t = "float" -> FloatRepr(v.m)
      [] v.t = "nan"   -> <<"n", "a", "n">>

\* A slip of the strip: the last character is cut whether or not it is '%'.
StrReplacePct_CutLast(s) == IF s = <<>> THEN s ELSE SubSeq(s, 1, Len(s) - 1)

\* Series.str.replace('%', ''): every '%' of the text is removed.
StrReplacePct(s) == SelectSeq(s, LAMBDA ch : ch # "%")

\* Series.astype(float) of one text: Python's float().
ToFloat(s) ==
    IF s = <<"n", "a", "n">> THEN [raised |-> FALSE, v |-> NaN]
    ELSE IF IsFloatText(s) THEN [raised |-> FALSE, v |-> FloatV(ParseMilli(s))]
    ELSE [raised |-> TRUE, v |-> NaN]

PctColumn == "%_of_Total_Revenue"

\* One cell of the percentage column, cleaned.
CleanCell(v) == ToFloat(StrReplacePct(AsStr(v)))

\* clean_percentage_column: a copy of the table whose percentage column, when
\* present, is stripped of '%' and converted to float; raises (ValueError)
\* when a cell does not convert.
clean_percentage_column(t) ==
    IF PctColumn \notin t.columns THEN [raised |-> FALSE, df |-> t]
    ELSE IF \E i \in 1..Len(t.rows) : CleanCell(t.rows[i][PctColumn]).raised
    THEN [raised |-> TRUE, df |-> t]
    ELSE [raised |-> FALSE,
          df |-> [t EXCEPT !.rows =
                    [i \in 1..Len(t.rows) |->
                       [t.rows[i] EXCEPT ![PctColumn] = CleanCell(t.rows[i][PctColumn]).v]]]]

\* load_demo_data followed by clean_percentage_column, as main calls them.
load_demo_data == read_csv(DEMO_DATA).df

\* The body of load_data_from_file and of load_data_from_url after the
\* fetch: read_csv and clean_percentage_column under one try/except, which
\* returns None on any exception.
LoadCsv(csv) ==
    LET r == read_csv(csv)
        c == clean_percentage_column(r.df)
    IN  IF r.raised \/ c.raised THEN <<>> ELSE <<c.df>>

\* A slip of the report: only the first missing column is named.
missing_columns_first(t) ==
    LET missing == SelectSeq(required_columns, LAMBDA col : col \notin t.columns)
    IN  IF missing = <<>> THEN <<>> ELSE <<missing[1]>>

\* validate_data's missing_columns: the required names that are not columns
\* of the table, in the order of required_columns.
missing_columns(t) == SelectSeq(required_columns, LAMBDA col : col \notin t.columns)

\* A slip of the check: every table is accepted.
validate_data_always(t) == TRUE

\* validate_data's result: True exactly when nothing is missing.
validate_data(t) == missing_columns(t) = <<>>

\* ------------------------------------------------------------------ chart

ImportanceColumn == "Strategic_Importance_(1-5)"
SpendColumn == "Spend_Potential_(1-5)"
RiskColumn == "Relationship_Risk_(R/A/G)"
RevenueColumn == "FY25_Revenue"

\* px.scatter's size_max: the diameter, in pixels, of the largest bubble.
size_max == 60

\* A slip of the shapes: the Bronze rectangle stops short of the divider.
QuadrantShapes_Gap ==
    {[x0 |-> 500,  y0 |-> 3000, x1 |-> 2500, y1 |-> 5500, fillcolor |-> "lightgray"],
     [x0 |-> 3000, y0 |-> 3000, x1 |-> 5500, y1 |-> 5500, fillcolor |-> "lightblue"],
     [x0 |-> 500,  y0 |-> 500,  x1 |-> 3000, y1 |-> 3000, fillcolor |-> "lightyellow"],
     [x0 |-> 3000, y0 |-> 500,  x1 |-> 5500, y1 |-> 3000, fillcolor |-> "lightgreen"]}

\* The four quadrant background rectangles, in thousandths.
QuadrantShapes ==
    {[x0 |-> 500,  y0 |-> 3000, x1 |-> 3000, y1 |-> 5500, fillcolor |-> "lightgray"],
     [x0 |-> 3000, y0 |-> 3000, x1 |-> 5500, y1 |-> 5500, fillcolor |-> "lightblue"],
     [x0 |-> 500,  y0 |-> 500,  x1 |-> 3000, y1 |-> 3000, fillcolor |-> "lightyellow"],
     [x0 |-> 3000, y0 |-> 500,  x1 |-> 5500, y1 |-> 3000, fillcolor |-> "lightgreen"]}

\* A slip of the labels: Bronze and Platinum are swapped.
QuadrantAnnotations_Swapped ==
    {[x |-> 1750, y |-> 4250, text |-> "Platinum"],
     [x |-> 4250, y |-> 4250, text |-> "Bronze"],
     [x |-> 1750, y |-> 1750, text |-> "Silver"],
     [x |-> 4250, y |-> 1750, text |-> "Gold"]}

\* The four quadrant labels and their anchors, in thousandths.
QuadrantAnnotations ==
    {[x |-> 1750, y |-> 4250, text |-> "Bronze"],
     [x |-> 4250, y |-> 4250, text |-> "Platinum"],
     [x |-> 1750, y |-> 1750, text |-> "Silver"],
     [x |-> 4250, y |-> 1750, text |-> "Gold"]}

\* The axis range of update_layout, the same on both axes.
AxisRange == <<500, 5500>>

\* px.scatter raises ValueError for a column name the table lacks and for a
\* marker size that is NaN.
ScatterRaises(t) ==
    \/ ~ (RequiredSet \subseteq t.columns)
    \/ \E i \in 1..Len(t.rows) : ~ IsNum(t.rows[i][PctColumn])

\* create_scatter_plot's figure: one point per row at (spend, importance)
\* with the revenue share as marker size, over the fixed shapes, labels,
\* divider lines and axis ranges.
create_scatter_plot(t) ==
    [points |-> [i \in 1..Len(t.rows) |->
                   [x |-> t.rows[i][SpendColumn],
                    y |-> t.rows[i][ImportanceColumn],
                    size |-> t.rows[i][PctColumn].m]],
     size_max |-> size_max,
     shapes |-> QuadrantShapes,
     annotations |-> QuadrantAnnotations,
     vline |-> 3000,
     hline |-> 3000,
     xrange |-> AxisRange,
     yrange |-> AxisRange]

\* The largest natural number whose square is at most n.
Isqrt(n) == CHOOSE k \in 0..n : k * k <= n /\ (k + 1) * (k + 1) > n

\* The largest marker size of a figure (0 for no point).
MaxSize(f) ==
    IF Len(f.points) = 0 THEN 0
    ELSE CHOOSE m \in {f.points[i].size : i \in 1..Len(f.points)} :
           \A i \in 1..Len(f.points) : f.points[i].size <= m

\* The diameter in pixels a marker is drawn with.  px.scatter sets sizemode
\* 'area' and sizeref = 2 * max(size) / size_max^2 and leaves sizemin at its
\* default 0, so the diameter is size_max * sqrt(size / max(size)), rounded
\* down here to a whole pixel.
Diameter(f, i) ==
    IF MaxSize(f) = 0 THEN 0
    ELSE Isqrt((f.size_max * f.size_max * f.points[i].size) \div MaxSize(f))

\* ---------------------------------------------------------------- summary

\* Sum of the numbers of a sequence of cells, NaN skipped (Series.sum).
RECURSIVE SumCells(_)
SumCells(cells) ==
    IF Len(cells) = 0 THEN 0
    ELSE SumCells(SubSeq(cells, 1, Len(cells) - 1))
           + (IF IsNum(cells[Len(cells)]) THEN cells[Len(cells)].m ELSE 0)

HasStr(cells) == \E i \in 1..Len(cells) : cells[i].t = "str"

\* df['FY25_Revenue'].sum() formatted with ':,.0f': the sum of a column of
\* str is a str, which that format rejects (ValueError).
total_revenue(t) ==
    IF HasStr(Column(t, RevenueColumn)) THEN [raised |-> TRUE, v |-> 0]
    ELSE [raised |-> FALSE, v |-> SumCells(Column(t, RevenueColumn))]

\* A slip of the filter: every client that is not Green counts as high risk.
high_risk_count_not_green(t) ==
    Cardinality({i \in 1..Len(t.rows) : t.rows[i][RiskColumn] # StrV(<<"G">>)})

\* len(df[df[risk] == 'R']).
high_risk_count(t) ==
    Cardinality({i \in 1..Len(t.rows) : t.rows[i][RiskColumn] = StrV(<<"R">>)})

\* A slip of the mean: an empty column averages to 0.
avg_strategic_importance_zero(t) ==
    LET cells == Column(t, ImportanceColumn)
        n == Cardinality({i \in 1..Len(cells) : IsNum(cells[i])})
    IN  IF HasStr(cells) THEN [raised |-> TRUE, v |-> NaN]
        ELSE IF n = 0 THEN [raised |-> FALSE, v |-> FloatV(0)]
        ELSE [raised |-> FALSE, v |-> FloatV(SumCells(cells) \div n)]

\* df['Strategic_Importance_(1-5)'].mean(): raises (TypeError) on a column
\* of str; NaN when no cell is a number; else the mean of the numbers,
\* here cut to thousandths.
avg_strategic_importance(t) ==
    LET cells == Column(t, ImportanceColumn)
        n == Cardinality({i \in 1..Len(cells) : IsNum(cells[i])})
    IN  IF HasStr(cells) THEN [raised |-> TRUE, v |-> NaN]
        ELSE IF n = 0 THEN [raised |-> FALSE, v |-> NaN]
        ELSE [raised |-> FALSE, v |-> FloatV(SumCells(cells) \div n)]

\* The keys of value_counts(): the distinct values of the risk column, NaN
\* dropped.
risk_keys(t) ==
    {t.rows[i][RiskColumn] : i \in 1..Len(t.rows)} \ {NaN}

\* value_counts()[risk].
risk_count(t, risk) ==
    Cardinality({i \in 1..Len(t.rows) : t.rows[i][RiskColumn] = risk})

\* risk_labels.get(risk_str, risk_str); a label is kept as one token.
risk_label(risk) ==
    LET risk_str == AsStr(risk)
    IN  CASE risk_str = <<"R">> -> <<"Red (High Risk)">>
          [] risk_str = <<"A">> -> <<"Amber (Medium Risk)">>
          [] risk_str = <<"G">> -> <<"Green (Low Risk)">>
          [] OTHER -> risk_str

\* A slip of the percentage: the fraction, not multiplied by 100.
percentage_fraction(count, n) == (count * Milli) \div n

\* (count / len(df)) * 100, in thousandths of a percent.
percentage(count, n) == (count * 100 * Milli) \div n

\* The lines of the risk distribution: one per key of value_counts().
\* Dividing by len(df) = 0 would raise ZeroDivisionError.
risk_distribution(t) ==
    IF risk_keys(t) # {} /\ Len(t.rows) = 0
    THEN [raised |-> TRUE, lines |-> {}]
    ELSE [raised |-> FALSE,
          lines |-> {[risk |-> k,
                      label |-> risk_label(k),
                      count |-> risk_count(t, k),
                      percentage |-> percentage(risk_count(t, k), Len(t.rows))]
                     : k \in risk_keys(t)}]

\* The data summary of main, metric by metric in the order main shows them.
\* A metric not reached because an earlier one raised stays absent (<<>>).
DataSummary(t) ==
    LET rev == total_revenue(t)
        avg == avg_strategic_importance(t)
        dist == risk_distribution(t)
        site == IF rev.raised THEN "total_revenue"
                ELSE IF avg.raised THEN "avg_strategic_importance"
                ELSE IF dist.raised THEN "risk_distribution"
                ELSE "none"
    IN  [raised |-> site,
         total_clients |-> <<Len(t.rows)>>,
         total_revenue |-> IF rev.raised THEN <<>> ELSE <<rev.v>>,
         high_risk_count |-> IF rev.raised THEN <<>> ELSE <<high_risk_count(t)>>,
         avg_strategic_importance |->
             IF rev.raised \/ avg.raised THEN <<>> ELSE <<avg.v>>,
         risk_lines |->
             IF rev.raised \/ avg.raised \/ dist.raised THEN <<>> ELSE <<dist.lines>>]

\* ------------------------------------------------------------------ inputs

\* A line whose cells are all well formed.
DefaultRow ==
    Row(<<"Client">>, <<"4">>, <<"2">>, <<"A">>, <<"1", "0", "0">>, <<"1", "0", "%">>)

\* Texts tried in the percentage column: with and without '%', a decimal,
\* zero, a blank cell, a '%' inside the number, and no number at all.
ShareTexts ==
    {<<"2", "8", "%">>, <<"2", "8">>, <<"2", ".", "5", "%">>, <<"0", "%">>,
     <<>>, <<"2", "%", "8">>, <<"x", "%">>}

\* Texts tried in the risk column: the three codes, another code, a blank.
RiskTexts == {<<"R">>, <<"A">>, <<"G">>, <<"X">>, <<>>}

\* Texts tried for spend potential and strategic importance: inside the
\* scale, just below the midpoint, the midpoint, above the scale.
ScoreTexts == {<<"1">>, <<"2", ".", "9", "9", "9">>, <<"3">>, <<"6">>}

\* Texts tried in a numeric column: a number and a text that is none.
BadTexts == {<<"4">>, <<"h", "i">>}

ShareRows == {[DefaultRow EXCEPT ![PctColumn] = s] : s \in ShareTexts}

RiskRows == {[DefaultRow EXCEPT ![RiskColumn] = s] : s \in RiskTexts}

ScoreRows ==
    {[DefaultRow EXCEPT ![SpendColumn] = x, ![ImportanceColumn] = y]
       : x \in ScoreTexts, y \in ScoreTexts}

BadRows ==
    {[DefaultRow EXCEPT ![SpendColumn] = x, ![ImportanceColumn] = y, ![RevenueColumn] = r]
       : x \in BadTexts, y \in BadTexts, r \in BadTexts}

\* The CSV texts with the six required columns and up to MaxRows lines
\* drawn from rows.
TablesOf(rows) ==
    {[columns |-> RequiredSet, rows |-> rs]
       : rs \in UNION {[1..n -> rows] : n \in 0..MaxRows}}

\* Headers tried: the required names, one in another case, one extra.
ColumnUniverse == RequiredSet \cup {"client_name", "Notes"}

\* One-line CSV texts over every choice of header.
SchemaTables ==
    {[columns |-> cols,
      rows |-> <<[c \in cols |-> IF c \in RequiredSet THEN DefaultRow[c] ELSE <<"x">>]>>]
       : cols \in SUBSET ColumnUniverse}

CsvFiles ==
    TablesOf(ShareRows) \cup TablesOf(RiskRows) \cup TablesOf(ScoreRows)
      \cup TablesOf(BadRows) \cup SchemaTables

\* What requests.get of the URL gives: a failure (timeout, HTTP error) or a
\* CSV text.
UrlResponses ==
    {[ok |-> FALSE, csv |-> [columns |-> {}, rows |-> <<>>]]}
      \cup {[ok |-> TRUE, csv |-> [columns |-> RequiredSet, rows |-> <<r>>]] : r \in ShareRows}
      \cup {[ok |-> TRUE, csv |-> [columns |-> RequiredSet \ {RevenueColumn},
                                   rows |-> <<[c \in RequiredSet \ {RevenueColumn} |-> DefaultRow[c]]>>]]}

\* The widget states of one run of main: the radio choice, the uploaded file
\* and the URL (with what fetching it gives).  An absent file or an empty
\* URL is <<>>.
Sessions ==
    {<<"Demo Data", <<>>, <<>>>>, <<"User Data", <<>>, <<>>>>}
      \cup {<<"User Data", <<f>>, <<>>>> : f \in CsvFiles}
      \cup {<<"User Data", <<>>, <<u>>>> : u \in UrlResponses}
      \cup {<<"User Data", <<f>>, <<u>>>> : f \in TablesOf({DefaultRow}), u \in UrlResponses}

\* ------------------------------------------------------------------- main

Init ==
    /\ \E s \in Sessions :
          /\ data_mode = s[1]
          /\ uploaded_file = s[2]
          /\ csv_url = s[3]
    /\ df = <<>>
    /\ pc = "start"
    /\ calls = <<>>
    /\ st_error = <<>>
    /\ fig = <<>>
    /\ summary = <<>>
    /\ exc = "none"

\* main, demo branch: load_demo_data and clean_percentage_column, outside
\* any try.
LoadDemo ==
    /\ pc = "start"
    /\ data_mode = "Demo Data"
    /\ LET c == clean_percentage_column(load_demo_data)
       IN  IF c.raised
           THEN /\ pc' = "exception"
                /\ exc' = "clean_percentage_column"
                /\ df' = <<>>
           ELSE /\ pc' = "loaded"
                /\ exc' = exc
                /\ df' = <<c.df>>
    /\ calls' = calls \o <<"load_demo_data", "clean_percentage_column">>
    /\ UNCHANGED <<data_mode, uploaded_file, csv_url, st_error, fig, summary>>

\* main, user branch with an uploaded file: load_data_from_file.
LoadFile ==
    /\ pc = "start"
    /\ data_mode = "User Data"
    /\ uploaded_file # <<>>
    /\ df' = LoadCsv(uploaded_file[1])
    /\ st_error' = IF df' = <<>>
                   THEN Append(st_error, [kind |-> "Error loading data from file", columns |-> <<>>])
                   ELSE st_error
    /\ calls' = Append(calls, "load_data_from_file")
    /\ pc' = "loaded"
    /\ UNCHANGED <<data_mode, uploaded_file, csv_url, fig, summary, exc>>

\* main, user branch with a URL and no uploaded file: load_data_from_url.
LoadUrl ==
    /\ pc = "start"
    /\ data_mode = "User Data"
    /\ uploaded_file = <<>>
    /\ csv_url # <<>>
    /\ df' = IF csv_url[1].ok THEN LoadCsv(csv_url[1].csv) ELSE <<>>
    /\ st_error' = IF df' = <<>>
                   THEN Append(st_error, [kind |-> "Error loading data from URL", columns |-> <<>>])
                   ELSE st_error
    /\ calls' = Append(calls, "load_data_from_url")
    /\ pc' = "loaded"
    /\ UNCHANGED <<data_mode, uploaded_file, csv_url, fig, summary, exc>>

\* main, user branch with neither a file nor a URL: df stays None.
NoSource ==
    /\ pc = "start"
    /\ data_mode = "User Data"
    /\ uploaded_file = <<>>
    /\ csv_url = <<>>
    /\ pc' = "loaded"
    /\ UNCHANGED <<data_mode, uploaded_file, csv_url, df, calls, st_error, fig, summary, exc>>

\* main's "if df is not None: if validate_data(df)": on failure
\* validate_data reports the missing columns and main shows no chart.
Validate ==
    /\ pc = "loaded"
    /\ df # <<>>
    /\ calls' = Append(calls, "validate_data")
    /\ IF validate_data(df[1])
       THEN /\ pc' = "validated"
            /\ st_error' = st_error
       ELSE /\ pc' = "done"
            /\ st_error' = Append(st_error, [kind |-> "Missing required columns",
                                             columns |-> missing_columns(df[1])])
    /\ UNCHANGED <<data_mode, uploaded_file, csv_url, df, fig, summary, exc>>

\* main's else branch of "if df is not None": only a hint is shown.
NoTable ==
    /\ pc = "loaded"
    /\ df = <<>>
    /\ pc' = "done"
    /\ UNCHANGED <<data_mode, uploaded_file, csv_url, df, calls, st_error, fig, summary, exc>>

\* main's call of create_scatter_plot and st.plotly_chart.  An exception of
\* px.scatter is caught nowhere.
Plot ==
    /\ pc = "validated"
    /\ calls' = Append(calls, "create_scatter_plot")
    /\ IF ScatterRaises(df[1])
       THEN /\ pc' = "exception"
            /\ exc' = "create_scatter_plot"
            /\ fig' = fig
       ELSE /\ pc' = "charted"
            /\ exc' = exc
            /\ fig' = <<create_scatter_plot(df[1])>>
    /\ UNCHANGED <<data_mode, uploaded_file, csv_url, df, st_error, summary>>

\* main's data summary, shown after the chart.  An exception of a metric is
\* caught nowhere; the metrics before it are already on the page.
Summarise ==
    /\ pc = "charted"
    /\ summary' = <<DataSummary(df[1])>>
    /\ IF DataSummary(df[1]).raised # "none"
       THEN /\ pc' = "exception"
            /\ exc' = DataSummary(df[1]).raised
       ELSE /\ pc' = "done"
            /\ exc' = exc
    /\ UNCHANGED <<data_mode, uploaded_file, csv_url, df, calls, st_error, fig>>

Next ==
    \/ LoadDemo
    \/ LoadFile
    \/ LoadUrl
    \/ NoSource
    \/ Validate
    \/ NoTable
    \/ Plot
    \/ Summarise

Spec == Init /\ [][Next]_vars

\* ------------------------------------------------------------------ claims

Range(s) == {s[i] : i \in 1..Len(s)}

\* The CSV text this run of main reads, if any.
SourceCsv ==
    IF data_mode = "Demo Data" THEN <<DEMO_DATA>>
    ELSE IF uploaded_file # <<>> THEN uploaded_file
    ELSE IF csv_url # <<>> /\ csv_url[1].ok THEN <<csv_url[1].csv>>
    ELSE <<>>

\* validate_data has run on the loaded table.
Validated == "validate_data" \in Range(calls)

\* The columns validate_data reported missing (none if it reported nothing).
Reported ==
    UNION {Range(st_error[i].columns) :
             i \in {j \in 1..Len(st_error) : st_error[j].kind = "Missing required columns"}}

ValidationFailed ==
    \E i \in 1..Len(st_error) : st_error[i].kind = "Missing required columns"

\* C2: validate_data fails if and only if at least one of the six required
\* column names (exact, case-sensitive) is absent from the table, and the
\* names it reports are exactly all the absent required columns: every one
\* of them, and no column that is present.
C2_ValidateReportsAllMissing ==
    Validated =>
        /\ ValidationFailed <=> (RequiredSet \ df[1].columns # {})
        /\ ValidationFailed => Reported = RequiredSet \ df[1].columns
        /\ ~ValidationFailed => (Reported = {} /\ pc # "loaded")
        /\ ValidationFailed => pc = "done"

\* C2 witness: validation failed on a table lacking two or more required
\* columns, one of them present only in another case.
C2_Witness ==
    /\ Validated
    /\ ValidationFailed
    /\ Cardinality(Reported) >= 2
    /\ "Client_Name" \in Reported
    /\ "client_name" \in df[1].columns

\* The position of the first occurrence of name in calls (0 if none).
FirstCall(name) ==
    IF name \in Range(calls)
    THEN CHOOSE i \in 1..Len(calls) :
           calls[i] = name /\ \A j \in 1..(i - 1) : calls[j] # name
    ELSE 0

\* C3: in every run of main the chart is built and the summary computed
\* only after validate_data succeeded on the loaded table: when a required
\* column is missing, or no table was loaded, create_scatter_plot is never
\* called and no summary metric is computed.
C3_ChartOnlyAfterValidation ==
    /\ ("create_scatter_plot" \in Range(calls) \/ fig # <<>> \/ summary # <<>>) =>
          /\ df # <<>>
          /\ RequiredSet \subseteq df[1].columns
          /\ ~ValidationFailed
          /\ 0 < FirstCall("validate_data")
          /\ FirstCall("validate_data") < FirstCall("create_scatter_plot")
    /\ summary # <<>> => fig # <<>>

\* C3 witness: a run that ended on a table lacking a required column, with
\* the failure reported and neither chart nor summary.
C3_Witness ==
    /\ pc = "done"
    /\ df # <<>>
    /\ ~ (RequiredSet \subseteq df[1].columns)
    /\ ValidationFailed
    /\ fig = <<>>
    /\ summary = <<>>

\* The text s with one trailing '%' removed, if it has one.
WithoutTrailingPct(s) ==
    IF Len(s) > 0 /\ s[Len(s)] = "%" THEN SubSeq(s, 1, Len(s) - 1) ELSE s

\* The texts of the percentage column of the CSV text that was loaded.
ShareTextsRead == Column(SourceCsv[1], PctColumn)

\* C5: revenue-share normalization treats each cell independently and does
\* not depend on the percent sign: a cell holding a numeric text n, with or
\* without a trailing '%', becomes the float n ('28%' and '28' both 28.0),
\* whatever the other cells hold, and normalizing the normalized table again
\* changes no value.
C5_PercentSignIdempotent ==
    (df # <<>> /\ PctColumn \in df[1].columns) =>
        /\ \A i \in 1..Len(df[1].rows) :
              IsFloatText(WithoutTrailingPct(ShareTextsRead[i])) =>
                 df[1].rows[i][PctColumn] = FloatV(ParseMilli(WithoutTrailingPct(ShareTextsRead[i])))
        /\ \A i, j \in 1..Len(df[1].rows) :
              (/\ IsFloatText(ShareTextsRead[i])
               /\ ShareTextsRead[j] = Append(ShareTextsRead[i], "%")) =>
                 df[1].rows[i][PctColumn] = df[1].rows[j][PctColumn]
        /\ ~ clean_percentage_column(df[1]).raised
        /\ clean_percentage_column(df[1]).df = df[1]

\* C5 witness: a loaded table with the cells '28' and '28%', both 28.0.
C5_Witness ==
    /\ pc = "loaded"
    /\ df # <<>>
    /\ PctColumn \in df[1].columns
    /\ \E i, j \in 1..Len(df[1].rows) :
          /\ ShareTextsRead[i] = <<"2", "8">>
          /\ ShareTextsRead[j] = <<"2", "8", "%">>
          /\ df[1].rows[i][PctColumn] = FloatV(28 * Milli)
          /\ df[1].rows[j][PctColumn] = FloatV(28 * Milli)

\* The run ended with the whole summary on the page.
SummaryShown == pc = "done" /\ summary # <<>> /\ summary[1].raised = "none"

\* C6 as stated: for the embedded 13-row demo dataset the summary reports
\* 13 clients, 4 Red-risk clients and a total revenue of 708,500.
C6_Original ==
    (data_mode = "Demo Data" /\ SummaryShown) =>
        /\ summary[1].total_clients = <<13>>
        /\ summary[1].high_risk_count = <<4>>
        /\ summary[1].total_revenue = <<708500 * Milli>>

\* C6 as amended: for the embedded 13-row demo dataset the summary reports
\* 13 clients, 3 Red-risk clients (Arctic Tours, Grange Hotel Group, Iceland
\* Tours) and a total revenue, the sum of the FY25_Revenue column, of
\* 709,000; and the demo run always reaches its summary.
C6_DemoSummary ==
    data_mode = "Demo Data" =>
        /\ pc # "exception"
        /\ pc = "done" => SummaryShown
        /\ SummaryShown =>
              /\ summary[1].total_clients = <<13>>
              /\ summary[1].high_risk_count = <<3>>
              /\ summary[1].total_revenue = <<709000 * Milli>>

\* C6 witness: the demo run has shown its summary.
C6_Witness ==
    /\ data_mode = "Demo Data"
    /\ SummaryShown
    /\ Len(df[1].rows) = 13

\* The loaded table passed validate_data and has no row.
EmptyValidated ==
    /\ df # <<>>
    /\ RequiredSet \subseteq df[1].columns
    /\ Len(df[1].rows) = 0

\* C7: for a validated table with zero rows the run completes without an
\* exception: the chart has an empty point list, the risk distribution is
\* empty, no division by zero is performed, and the mean strategic
\* importance is the undefined marker NaN, never 0 or any other number.
C7_EmptyTable ==
    EmptyValidated =>
        /\ pc # "exception"
        /\ exc = "none"
        /\ pc \in {"charted", "done"} => (fig # <<>> /\ fig[1].points = <<>>)
        /\ pc = "done" =>
              /\ SummaryShown
              /\ summary[1].total_clients = <<0>>
              /\ summary[1].risk_lines = <<{}>>
              /\ summary[1].avg_strategic_importance = <<NaN>>

\* C7 witness: a run on a header-only CSV has shown chart and summary.
C7_Witness ==
    /\ EmptyValidated
    /\ pc = "done"
    /\ fig # <<>>
    /\ summary # <<>>

\* Sum of the counts of a set of distribution lines.
RECURSIVE SumCounts(_)
SumCounts(lines) ==
    IF lines = {} THEN 0
    ELSE LET l == CHOOSE x \in lines : TRUE
         IN  l.count + SumCounts(lines \ {l})

\* The cells of the risk column of the loaded table.
RiskCells == {df[1].rows[i][RiskColumn] : i \in 1..Len(df[1].rows)}

RowsWithRisk(v) == {i \in 1..Len(df[1].rows) : df[1].rows[i][RiskColumn] = v}

\* What the distribution lines always satisfy, whichever cells count as a
\* code: one line per code in codes, its count, its percentage of all
\* clients, its label.
DistributionOver(codes) ==
    LET lines == summary[1].risk_lines[1]
        n == Len(df[1].rows)
    IN  /\ {l.risk : l \in lines} = codes
        /\ Cardinality(lines) = Cardinality(codes)
        /\ \A l \in lines :
              /\ l.count = Cardinality(RowsWithRisk(l.risk))
              /\ l.count > 0
              /\ l.percentage * n <= l.count * 100 * Milli
              /\ l.count * 100 * Milli < (l.percentage + 1) * n
              /\ l.label = (CASE l.risk = StrV(<<"R">>) -> <<"Red (High Risk)">>
                              [] l.risk = StrV(<<"A">>) -> <<"Amber (Medium Risk)">>
                              [] l.risk = StrV(<<"G">>) -> <<"Green (Low Risk)">>
                              [] OTHER -> l.risk.s)

NumericColumns == {RevenueColumn, PctColumn, ImportanceColumn, SpendColumn}

\* A filled cell of column c that is not a number (for the percentage
\* column, read as leniently as can be: not a number even with its '%'
\* signs taken out).
NotANumber(c, s) ==
    /\ s # <<>>
    /\ ~ IsFloatText(IF c = PctColumn THEN SelectSeq(s, LAMBDA ch : ch # "%") ELSE s)

\* The CSV text read has the six required columns and a cell of a numeric
\* column that is not a number.
HasBadCell ==
    /\ SourceCsv # <<>>
    /\ RequiredSet \subseteq SourceCsv[1].columns
    /\ \E i \in 1..Len(SourceCsv[1].rows), c \in NumericColumns :
          NotANumber(c, SourceCsv[1].rows[i][c])

\* C4: whenever a cell of a column expected to be numeric (revenue, revenue
\* share, strategic importance, spend potential) does not parse as a number,
\* the run ends with an error shown to the user, renders no chart and no
\* summary, never replaces the cell by a number, and raises no uncaught
\* exception.
C4_ParseErrorSurfaced ==
    HasBadCell =>
        /\ fig = <<>>
        /\ summary = <<>>
        /\ pc # "exception"
        /\ pc = "done" => st_error # <<>>
        /\ df # <<>> =>
              \A i \in 1..Len(df[1].rows), c \in NumericColumns :
                  NotANumber(c, SourceCsv[1].rows[i][c]) => ~ IsNum(df[1].rows[i][c])

\* C8: for every validated table the bubble size is a non-decreasing
\* function of the revenue share, the record with the largest share has
\* the maximum size 60, and every record, one with 0% share included, has a
\* strictly positive size.
C8_BubbleSize ==
    fig # <<>> =>
        LET f == fig[1]
            n == Len(f.points)
        IN  /\ \A i, j \in 1..n :
                  f.points[i].size <= f.points[j].size => Diameter(f, i) <= Diameter(f, j)
            /\ \A i \in 1..n : f.points[i].size = MaxSize(f) => Diameter(f, i) = 60
            /\ \A i \in 1..n : Diameter(f, i) > 0

\* ---------------------------------------------------------------- geometry

\* The point (x, y) lies in the closed rectangle r.
InRect(r, x, y) == r.x0 <= x /\ x <= r.x1 /\ r.y0 <= y /\ y <= r.y1

\* The point (x, y) lies in the interior of r.
Inside(r, x, y) == r.x0 < x /\ x < r.x1 /\ r.y0 < y /\ y < r.y1

\* The labels anchored in the interior of rectangle r of figure f.
LabelsOf(f, r) == {a.text : a \in {b \in f.annotations : Inside(r, b.x, b.y)}}

\* The quadrant labels of the regions of figure f the point (x, y) lies in.
QuadrantsAt(f, x, y) ==
    UNION {LabelsOf(f, r) : r \in {q \in f.shapes : InRect(q, x, y)}}

\* The midpoint rule of the classification: 3 counts as high on each axis.
MidpointRule(x, y) ==
    IF x < 3000
    THEN (IF y >= 3000 THEN "Bronze" ELSE "Silver")
    ELSE (IF y >= 3000 THEN "Platinum" ELSE "Gold")

InDomain(f, x, y) ==
    /\ f.xrange[1] <= x /\ x <= f.xrange[2]
    /\ f.yrange[1] <= y /\ y <= f.yrange[2]

\* The plotted points of the figure whose two coordinates are numbers.
NumericPoints(f) ==
    {<<f.points[i].x.m, f.points[i].y.m>> :
        i \in {j \in 1..Len(f.points) : IsNum(f.points[j].x) /\ IsNum(f.points[j].y)}}

\* Every cell of the percentage column read is a number, with or without a
\* trailing '%': the marker sizes are numbers.
SharesAreNumbers ==
    /\ SourceCsv # <<>>
    /\ RequiredSet \subseteq SourceCsv[1].columns
    /\ \A i \in 1..Len(SourceCsv[1].rows) :
          IsFloatText(WithoutTrailingPct(SourceCsv[1].rows[i][PctColumn]))

Grid == {500, 1000, 1750, 2000, 2999, 3000, 3001, 4000, 4250, 5000, 5500}

\* C10: the chart's fixed geometry agrees with the classification rule: the
\* four shaded rectangles cover the axis domain [0.5,5.5] x [0.5,5.5] and
\* overlap only on the divider lines x=3 and y=3; each quadrant label anchor
\* lies strictly inside the rectangle of its own quadrant; and every point
\* of the domain lies in the closed rectangle labelled with the quadrant the
\* midpoint rule gives it, so no plotted client sits in a region labelled
\* with another quadrant than its classification.
C10_GeometryAgrees ==
    fig # <<>> =>
        LET f == fig[1]
            D == {p \in (Grid \X Grid) \cup NumericPoints(f) : InDomain(f, p[1], p[2])}
        IN  /\ f.xrange = <<500, 5500>> /\ f.yrange = <<500, 5500>>
            /\ \A r \in f.shapes : \A x \in {r.x0, r.x1}, y \in {r.y0, r.y1} : InDomain(f, x, y)
            /\ \A p \in D : \E r \in f.shapes : InRect(r, p[1], p[2])
            /\ \A p \in D :
                  Cardinality({r \in f.shapes : InRect(r, p[1], p[2])}) > 1 =>
                     (p[1] = f.vline \/ p[2] = f.hline)
            /\ f.vline = 3000 /\ f.hline = 3000
            /\ \A a \in f.annotations :
                  /\ Cardinality({r \in f.shapes : Inside(r, a.x, a.y)}) = 1
                  /\ MidpointRule(a.x, a.y) = a.text
                  /\ \A r \in {q \in f.shapes : Inside(q, a.x, a.y)} :
                        \A p \in D : Inside(r, p[1], p[2]) => MidpointRule(p[1], p[2]) = a.text
            /\ \A r \in f.shapes : Cardinality(LabelsOf(f, r)) = 1
            /\ \A p \in D : MidpointRule(p[1], p[2]) \in QuadrantsAt(f, p[1], p[2])

\* C10 witness: a chart with a client plotted exactly on both dividers, at
\* (3, 3), inside the closed Platinum rectangle.
C10_Witness ==
    /\ fig # <<>>
    /\ <<3000, 3000>> \in NumericPoints(fig[1])
    /\ "Platinum" \in QuadrantsAt(fig[1], 3000, 3000)

====
